---- MODULE Spec2Model ----
(***************************************************************************)
(* Model of the alias store of src/db.py: the three tables users, emails   *)
(* and name_pool behind one libsql connection, the process-wide lock       *)
(* _lock, and the operations init_db, upsert_user, seed_names_from_file,   *)
(* create_email_for_user, deactivate_email, get_user_by_address,           *)
(* get_chat_id and list_emails, called from concurrent threads.            *)
(*                                                                         *)
(* Text is a sequence of one-character strings, so that strip(), lower()   *)
(* and the isalnum() filter are computed character by character.           *)
(* A nullable column or an Optional result is <<>> (NULL / None) or a      *)
(* one-element sequence <<v>>; an address is a non-empty text.             *)
(*                                                                         *)
(* Of src/main.py: parse_raw_email, send_multipart_email and the handler   *)
(* inbound_email, a coroutine that calls the store and hands messages and  *)
(* photos to the bot one await at a time. Headers and bodies are texts of  *)
(* runs (a character and its repeat count).                                *)
(***************************************************************************)
EXTENDS Integers, Sequences, FiniteSets, TLC

\* ------------------------------------------------------------------ bounds
NThreads == 2
MaxCalls == 3
MaxParts == 12

\* ------------------------------------------------------- program constants
MaxAttempts == 30
SuffixMin == 1000
SuffixMax == 9999
DefaultLimit == 20

Threads == 1..NThreads
Owners == {1, 2}
ChatIds == {7, 8}
None == <<>>
Some(v) == <<v>>

\* ------------------------------------------------------------------- text
Whitespace == {" ", "\n"}
Digit == {"0", "1", "2", "3", "4", "5", "6", "7", "8", "9"}
LowerLetter == {"d", "f", "o", "x"}
UpperLetter == {"D", "F", "O", "X"}

\* str.isalnum() of one character
IsAlnum(c) == c \in Digit \cup LowerLetter \cup UpperLetter

\* str.lower() of one character
LowerChar(c) ==
  CASE c = "D" -> "d"
    [] c = "F" -> "f"
    [] c = "O" -> "o"
    [] c = "X" -> "x"
    [] OTHER -> c

\* str.upper() of one character (used to build mixed-case inputs only)
UpperChar(c) ==
  CASE c = "d" -> "D"
    [] c = "f" -> "F"
    [] c = "o" -> "O"
    [] c = "x" -> "X"
    [] OTHER -> c

Lower(s) == [i \in 1..Len(s) |-> LowerChar(s[i])]
Upper(s) == [i \in 1..Len(s) |-> UpperChar(s[i])]

RECURSIVE LStrip(_)
LStrip(s) ==
  IF s # <<>> /\ Head(s) \in Whitespace THEN LStrip(Tail(s)) ELSE s

RECURSIVE RStrip(_)
RStrip(s) ==
  IF s # <<>> /\ s[Len(s)] \in Whitespace
  THEN RStrip(SubSeq(s, 1, Len(s) - 1))
  ELSE s

\* str.strip()
Strip(s) == LStrip(RStrip(s))

\* "".join(ch for ch in n if ch.isalnum() or ch == "_")
KeepNameChars(s) == SelectSeq(s, LAMBDA c : IsAlnum(c) \/ c = "_")

\* one line of name.txt -> the normalized name, <<>> if the line is dropped
NormalizeName(line) ==
  LET n == Strip(line)
  IN IF n = <<>> THEN <<>> ELSE KeepNameChars(Lower(n))

\* the list `names` built from the lines of the file
RECURSIVE NamesOfFile(_)
NamesOfFile(lines) ==
  IF lines = <<>> THEN <<>>
  ELSE LET n == NormalizeName(Head(lines))
       IN (IF n = <<>> THEN <<>> ELSE <<n>>) \o NamesOfFile(Tail(lines))

\* domain.strip().lower()
NormalizeDomain(domain) == Lower(Strip(domain))

DigitChar(d) ==
  CASE d = 0 -> "0" [] d = 1 -> "1" [] d = 2 -> "2" [] d = 3 -> "3"
    [] d = 4 -> "4" [] d = 5 -> "5" [] d = 6 -> "6" [] d = 7 -> "7"
    [] d = 8 -> "8" [] d = 9 -> "9"

\* str(suffix) for a decimal integer
RECURSIVE IntToText(_)
IntToText(n) ==
  IF n < 10 THEN <<DigitChar(n)>>
  ELSE IntToText(n \div 10) \o <<DigitChar(n % 10)>>

\* mutant: the random suffix is left out of the address
MakeAddressNoSuffix(base, suffix, domain) ==
  Lower(base \o <<"@">> \o domain)

\* f"{base}{suffix}@{domain}".lower()
MakeAddress(base, suffix, domain) ==
  Lower(base \o IntToText(suffix) \o <<"@">> \o domain)

\* ----------------------------------------------------------------- inputs
\* contents of name.txt: a sequence of lines, each ending in a newline
FileFox == << <<"f", "o", "x", "\n">> >>
FileMixed ==
  << <<" ", "F", "o", "x", " ", "\n">>,
     <<"\n">>,
     <<"f", "-", "o", ".", "x", "1", "\n">>,
     <<"f", "o", "x", "\n">> >>
FileBlank == << <<" ", " ", "\n">>, <<"-", "\n">> >>
Files == {FileFox, FileMixed, FileBlank}

\* random.randint(SuffixMin, SuffixMax): the two ends of the range
Suffixes == {SuffixMin, SuffixMax}

DomainInputs == { <<"d">>, <<" ", "D", "\n">> }

\* an address that no allocation can produce
StrangerAddress == <<"x", "@", "d">>

\* ----------------------------------------------------------------- tables
PoolRow(n) ==
  [name |-> n, used |-> 0, used_by |-> None, used_email |-> None,
   used_at |-> None]

EmailRow(a, tid, base, now) ==
  [address |-> a, telegram_id |-> tid, base_name |-> base, is_active |-> 1,
   created_at |-> now]

UserRow(tid, chat) == [telegram_id |-> tid, chat_id |-> chat]

\* mutant: INSERT OR REPLACE, which resets a name that is already present
InsertOrReplaceName(pool, n) ==
  {r \in pool : r.name # n} \cup {PoolRow(n)}

\* INSERT OR IGNORE INTO name_pool(name, used) VALUES(?, 0)
InsertOrIgnoreName(pool, n) ==
  IF \E r \in pool : r.name = n THEN pool ELSE pool \cup {PoolRow(n)}

\* mutant: the pool is emptied before the names of the file are inserted
SeedNamesFresh(pool, names) ==
  {PoolRow(names[i]) : i \in 1..Len(names)}

\* for n in names: INSERT OR IGNORE ...
RECURSIVE SeedNames(_, _)
SeedNames(pool, names) ==
  IF names = <<>> THEN pool
  ELSE SeedNames(InsertOrIgnoreName(pool, Head(names)), Tail(names))

\* value returned by seed_names_from_file once the names are inserted
SeedReturn(names) == Len(names)

\* mutant: the SELECT has no `WHERE used=0`
SelectAnyName(pool) == {r.name : r \in pool}

\* SELECT name FROM name_pool WHERE used=0: the candidates of ORDER BY RANDOM()
SelectUnused(pool) == {r.name : r \in {q \in pool : q.used = 0}}

\* INSERT INTO emails ... fails on the primary key when the address exists
EmailExists(mails, a) == \E r \in mails : r.address = a

InsertEmail(mails, a, tid, base, now) ==
  mails \cup {EmailRow(a, tid, base, now)}

\* rows matched by UPDATE name_pool ... WHERE name=? AND used=0
ClaimMatches(pool, base) == {r \in pool : r.name = base /\ r.used = 0}

\* mutant: the UPDATE records the claimant but forgets used=1
ClaimNameKeepsUnused(pool, base, tid, a, now) ==
  (pool \ ClaimMatches(pool, base)) \cup
  {[r EXCEPT !.used_by = Some(tid), !.used_email = a, !.used_at = Some(now)] :
     r \in ClaimMatches(pool, base)}

\* mutant: the parameters are bound in the wrong order, used_email gets the
\* base name
ClaimNameSwapped(pool, base, tid, a, now) ==
  (pool \ ClaimMatches(pool, base)) \cup
  {[r EXCEPT !.used = 1, !.used_by = Some(tid), !.used_email = base,
             !.used_at = Some(now)] : r \in ClaimMatches(pool, base)}

\* UPDATE name_pool SET used=1, used_by=?, used_email=?, used_at=now
ClaimName(pool, base, tid, a, now) ==
  (pool \ ClaimMatches(pool, base)) \cup
  {[r EXCEPT !.used = 1, !.used_by = Some(tid), !.used_email = a,
             !.used_at = Some(now)] : r \in ClaimMatches(pool, base)}

\* mutant: the UPDATE also requires is_active=1
DeactivateMatchesActiveOnly(mails, a, tid) ==
  {r \in mails : r.address = a /\ r.telegram_id = tid /\ r.is_active = 1}

\* rows matched by UPDATE emails ... WHERE address=? AND telegram_id=?
DeactivateMatches(mails, a, tid) ==
  {r \in mails : r.address = a /\ r.telegram_id = tid}

\* mutant: the UPDATE matches on the owner only
DeactivateRowsOfOwner(mails, a, tid) ==
  {r \in mails : r.telegram_id # tid} \cup
  {[r EXCEPT !.is_active = 0] : r \in {q \in mails : q.telegram_id = tid}}

\* mutant: DELETE FROM emails instead of the soft delete
DeactivateRowsDelete(mails, a, tid) ==
  {r \in mails : ~(r.address = a /\ r.telegram_id = tid)}

\* UPDATE emails SET is_active=0
DeactivateRows(mails, a, tid) ==
  (mails \ DeactivateMatches(mails, a, tid)) \cup
  {[r EXCEPT !.is_active = 0] : r \in DeactivateMatches(mails, a, tid)}

\* mutant: the SELECT does not look at is_active
LookupOwnerAnyState(mails, a) ==
  LET rows == {r \in mails : r.address = a}
  IN IF rows = {} THEN None ELSE Some((CHOOSE r \in rows : TRUE).telegram_id)

\* SELECT telegram_id FROM emails WHERE address=? AND is_active=1 LIMIT 1
LookupOwner(mails, a) ==
  LET rows == {r \in mails : r.address = a /\ r.is_active = 1}
  IN IF rows = {} THEN None ELSE Some((CHOOSE r \in rows : TRUE).telegram_id)

\* INSERT INTO users ... ON CONFLICT(telegram_id) DO UPDATE SET chat_id
UpsertUser(us, tid, chat) ==
  {r \in us : r.telegram_id # tid} \cup {UserRow(tid, chat)}

\* SELECT chat_id FROM users WHERE telegram_id=? LIMIT 1
LookupChat(us, tid) ==
  LET rows == {r \in us : r.telegram_id = tid}
  IN IF rows = {} THEN None ELSE Some((CHOOSE r \in rows : TRUE).chat_id)

\* SELECT ... FROM emails WHERE telegram_id=? ORDER BY created_at DESC LIMIT ?
\* every result the statement may return: a newest-first prefix of the rows
ListResults(mails, tid, limit) ==
  LET rows == {r \in mails : r.telegram_id = tid}
      k == IF Cardinality(rows) < limit THEN Cardinality(rows) ELSE limit
  IN {s \in [1..k -> rows] :
        /\ \A i, j \in 1..k : i # j => s[i] # s[j]
        /\ \A i, j \in 1..k : i < j => s[i].created_at >= s[j].created_at
        /\ \A r \in rows : (\A i \in 1..k : s[i] # r) =>
              \A i \in 1..k : s[i].created_at >= r.created_at}

\* ------------------------------------------------------------ long texts
\* Mail headers and bodies run to thousands of characters: such a text is a
\* sequence of runs, each a character with its repeat count, kept merged.
Run(c, n) == [c |-> c, n |-> n]
Blank == <<>>

\* a + b, of merged texts: only the runs that meet can merge
Cat(a, b) ==
  IF a = <<>> THEN b
  ELSE IF b = <<>> THEN a
  ELSE IF a[Len(a)].c = b[1].c
         THEN SubSeq(a, 1, Len(a) - 1)
              \o <<Run(b[1].c, a[Len(a)].n + b[1].n)>> \o Tail(b)
         ELSE a \o b

\* the runs merged and the empty ones dropped, by halves
RECURSIVE Norm(_)
Norm(s) ==
  IF Len(s) = 0 THEN <<>>
  ELSE IF Len(s) = 1 THEN (IF s[1].n = 0 THEN <<>> ELSE <<s[1]>>)
  ELSE Cat(Norm(SubSeq(s, 1, Len(s) \div 2)),
           Norm(SubSeq(s, Len(s) \div 2 + 1, Len(s))))

\* len(txt)
RECURSIVE TLen(_)
TLen(s) ==
  IF Len(s) = 0 THEN 0
  ELSE IF Len(s) = 1 THEN s[1].n
  ELSE TLen(SubSeq(s, 1, Len(s) \div 2))
       + TLen(SubSeq(s, Len(s) \div 2 + 1, Len(s)))

\* the number of whole runs among the first k characters of txt
WholeRuns(s, k) ==
  CHOOSE m \in 0..Len(s) :
    /\ TLen(SubSeq(s, 1, m)) <= k
    /\ m < Len(s) => TLen(SubSeq(s, 1, m + 1)) > k

\* txt[:k] for k >= 0
Take(s, k) ==
  IF k <= 0 THEN <<>>
  ELSE LET m == WholeRuns(s, k)
           left == k - TLen(SubSeq(s, 1, m))
       IN SubSeq(s, 1, m)
          \o (IF m < Len(s) /\ left > 0 THEN <<Run(s[m + 1].c, left)>>
              ELSE <<>>)

\* txt[k:] for k >= 0
Drop(s, k) ==
  IF k <= 0 THEN s
  ELSE LET m == WholeRuns(s, k)
           left == k - TLen(SubSeq(s, 1, m))
       IN IF m = Len(s) THEN <<>>
          ELSE IF left > 0
                 THEN <<Run(s[m + 1].c, s[m + 1].n - left)>>
                      \o SubSeq(s, m + 2, Len(s))
                 ELSE SubSeq(s, m + 1, Len(s))

\* n times the character c
Letters(c, n) == <<Run(c, n)>>

\* a text given character by character
FromChars(q) == Norm([i \in 1..Len(q) |-> Run(q[i], 1)])

\* what str.strip() removes, of the characters the texts here are made of
TextSpace == Whitespace \cup {"\r", "\t"}

RECURSIVE TLStrip(_)
TLStrip(s) ==
  IF s # <<>> /\ Head(s).c \in TextSpace THEN TLStrip(Tail(s)) ELSE s

RECURSIVE TRStrip(_)
TRStrip(s) ==
  IF s # <<>> /\ s[Len(s)].c \in TextSpace
    THEN TRStrip(SubSeq(s, 1, Len(s) - 1))
    ELSE s

\* (txt or "").strip()
TStrip(s) == TLStrip(TRStrip(Norm(s)))

\* ------------------------------------------------- send_multipart_email
DefaultMaxLen == 3900
MinFirstSize == 500
HeaderCap == 1200
FirstFloor == 500
OtherFloor == 1000

\* one character stands for the envelope emoji, one code point to len()
Envelope == "#"
LabelWords ==
  <<Envelope, " ", "N", "e", "w", " ", "E", "m", "a", "i", "l", " ", "(">>
Separator == FromChars(<<"\n", "\n">>)

\* f"<envelope> New Email ({i}/{total})\n\n"
Label(i, total) ==
  FromChars(LabelWords \o IntToText(i) \o <<"/">> \o IntToText(total)
            \o <<")", "\n", "\n">>)

\* part_label_template, other_prefix
LabelTemplate == Label(9, 9)

Max(a, b) == IF a >= b THEN a ELSE b

\* mutant: the step of the range is one more than the slice
RECURSIVE ChunkTextGap(_, _)
ChunkTextGap(txt, size) ==
  IF txt = <<>> THEN <<>>
  ELSE <<Take(txt, size)>> \o ChunkTextGap(Drop(txt, size + 1), size)

\* chunk_text: [txt[i:i+size] for i in range(0, len(txt), size)]
RECURSIVE ChunkText(_, _)
ChunkText(txt, size) ==
  IF txt = <<>> THEN <<>>
  ELSE <<Take(txt, size)>> \o ChunkText(Drop(txt, size), size)

\* the header as the first message carries it: cut to 1200 characters when
\* less than 500 would be left for the body
SentHeader(header, max_len) ==
  IF max_len - TLen(Cat(Cat(LabelTemplate, header), Separator)) < MinFirstSize
    THEN Take(header, HeaderCap)
    ELSE header

FirstPrefix(header, max_len) ==
  Cat(Cat(LabelTemplate, SentHeader(header, max_len)), Separator)

FirstSize(header, max_len) ==
  Max(max_len - TLen(FirstPrefix(header, max_len)), FirstFloor)

OtherSize(max_len) == Max(max_len - TLen(LabelTemplate), OtherFloor)

\* chunks = [first_chunk] + rest_chunks, for a stripped non-empty body
Chunks(header, body, max_len) ==
  LET first_size == FirstSize(header, max_len)
      rest == Drop(body, first_size)
  IN <<Take(body, first_size)>>
     \o (IF rest # <<>> THEN ChunkText(rest, OtherSize(max_len)) ELSE <<>>)

\* mutant: every message carries the header
MessageAlwaysHeader(header, chunks, i) ==
  Cat(Cat(Cat(Label(i, Len(chunks)), header), Separator), chunks[i])

\* msg of the i-th turn of the loop
Message(header, chunks, i) ==
  IF i = 1
    THEN Cat(Cat(Cat(Label(i, Len(chunks)), header), Separator), chunks[i])
    ELSE Cat(Label(i, Len(chunks)), chunks[i])

\* --------------------------------------------------------- parse_raw_email
TruncatedAt == 3400
MaxImages == 5
Nul == "NUL"

\* s.replace("\x00", "")
RECURSIVE DropNul(_)
DropNul(s) ==
  IF s = <<>> THEN <<>>
  ELSE IF Head(s).c = Nul THEN DropNul(Tail(s))
       ELSE <<Head(s)>> \o DropNul(Tail(s))

\* re.sub(r"\r\n", "\n", s): the last \r of a run that a \n follows goes
RECURSIVE CrLfToLf(_)
CrLfToLf(s) ==
  IF s = <<>> THEN <<>>
  ELSE IF Len(s) >= 2 /\ s[1].c = "\r" /\ s[2].c = "\n"
         THEN <<Run("\r", s[1].n - 1)>> \o CrLfToLf(Tail(s))
         ELSE <<Head(s)>> \o CrLfToLf(Tail(s))

\* re.sub(r"\n{4,}", "\n\n\n", s)
SquashNewlines(s) ==
  [i \in 1..Len(s) |->
     IF s[i].c = "\n" /\ s[i].n >= 4 THEN Run("\n", 3) ELSE s[i]]

\* _clean_text
CleanText(s) ==
  TStrip(SquashNewlines(Norm(CrLfToLf(Norm(DropNul(Norm(s)))))))

\* "\n\n" in txt
RECURSIVE HasBlankLine(_)
HasBlankLine(s) ==
  s # <<>> /\ ((Head(s).c = "\n" /\ Head(s).n >= 2) \/ HasBlankLine(Tail(s)))

\* txt.split("\n\n", 1)[1]
RECURSIVE AfterBlankLine(_)
AfterBlankLine(s) ==
  IF s = <<>> THEN <<>>
  ELSE IF Head(s).c = "\n" /\ Head(s).n >= 2
         THEN Norm(<<Run("\n", Head(s).n - 2)>> \o Tail(s))
         ELSE AfterBlankLine(Tail(s))

\* body_text of a raw text that is split at its first blank line
RawBody(raw) ==
  IF HasBlankLine(Norm(raw)) THEN CleanText(AfterBlankLine(Norm(raw))) ELSE Blank

\* the loop over `found`: stripped, non-empty, first occurrences, in order
RECURSIVE DistinctUrls(_, _)
DistinctUrls(found, seen) ==
  IF found = <<>> THEN <<>>
  ELSE LET u == Strip(Head(found))
       IN IF u # <<>> /\ u \notin seen
          THEN <<u>> \o DistinctUrls(Tail(found), seen \cup {u})
          ELSE DistinctUrls(Tail(found), seen)

\* image_urls, from what re.findall gave for the HTML parts
ImageUrls(found) ==
  LET urls == DistinctUrls(found, {})
  IN SubSeq(urls, 1, IF Len(urls) < MaxImages THEN Len(urls) ELSE MaxImages)

\* mutant: the guess needs more than 3400 characters
TruncatedGuessOver(raw) == TLen(raw) > TruncatedAt

\* truncated_guess
TruncatedGuess(raw) == TLen(raw) >= TruncatedAt

\* the parts that are not blank, joined by a blank line
RECURSIVE JoinParts(_)
JoinParts(parts) ==
  IF parts = <<>> THEN Blank
  ELSE IF TStrip(Head(parts)) = Blank THEN JoinParts(Tail(parts))
       ELSE LET rest == JoinParts(Tail(parts))
            IN IF rest = Blank THEN Norm(Head(parts))
               ELSE Cat(Cat(Head(parts), Separator), rest)

\* body select of the structured path; html holds the text the substitutions
\* of _html_to_text leave of the HTML parts
StructuredBody(raw, plain_parts, html) ==
  IF JoinParts(plain_parts) # Blank THEN CleanText(JoinParts(plain_parts))
  ELSE IF TStrip(html) # Blank THEN CleanText(html)
  ELSE RawBody(raw)

NoParse ==
  [path |-> "none", from_addr |-> Blank, subject |-> Blank,
   date_str |-> Blank, body_text |-> Blank, image_urls |-> <<>>,
   truncated |-> FALSE]

\* parse_raw_email. lib is what the email package and the regular
\* expressions make of the text: whether the structured parse raises, the
\* header values, the text parts, the image sources found in the HTML
ParseRawEmail(raw, lib) ==
  IF raw = Blank
  THEN [NoParse EXCEPT !.path = "empty", !.truncated = TRUE]
  ELSE IF lib.raises
  THEN [path |-> "fallback", from_addr |-> TStrip(lib.from_addr),
        subject |-> TStrip(lib.subject), date_str |-> TStrip(lib.date_str),
        body_text |-> RawBody(raw), image_urls |-> <<>>, truncated |-> TRUE]
  ELSE [path |-> "structured", from_addr |-> TStrip(lib.from_addr),
        subject |-> TStrip(lib.subject), date_str |-> TStrip(lib.date_str),
        body_text |-> StructuredBody(raw, lib.plain_parts, lib.html),
        image_urls |-> ImageUrls(lib.found),
        truncated |-> TruncatedGuess(raw)]

\* ------------------------------------------------------------------ state
VARIABLES
  users,          \* table users, as the connection sees it
  emails,         \* table emails
  name_pool,      \* table name_pool
  inTx,           \* the connection has an open transaction
  snap,           \* the tables as of BEGIN, restored by ROLLBACK
  lock,           \* _lock: 0 when free, else the thread holding it
  clock,          \* datetime('now')
  storageFaults,  \* whether statements of the claim transaction may raise
  pc,             \* position of each thread
  op,             \* the call each thread is making
  loc,            \* locals of create_email_for_user: base, address, attempt
  last,           \* the call that returned last, with the value it returned
  budget,         \* calls that may still be issued
  pre,            \* history: committed tables when an allocation took the lock
  allocLog,       \* history: every create_email_for_user return, in order
  deactivated,    \* history: the addresses of deactivations that returned True
  zeroRows,       \* history: claim UPDATEs that were seen to match no row
  hpc,            \* position of the coroutine handling a request
  hloc,           \* its locals
  outbox,         \* what the bot was handed to send, in order
  parsed          \* what parse_raw_email returned for the request

vars ==
  <<users, emails, name_pool, inTx, snap, lock, clock, storageFaults, pc, op,
    loc, last, budget, pre, allocLog, deactivated, zeroRows, hpc, hloc,
    outbox, parsed>>

\* the variables of the store and of its callers
DbVars ==
  <<users, emails, name_pool, inTx, snap, lock, clock, storageFaults, pc, op,
    loc, last, budget, pre, allocLog, deactivated, zeroRows>>

\* the variables of the request handler
Mail == <<hpc, hloc, outbox, parsed>>

\* what no operation of the store touches
Static == <<storageFaults, Mail, zeroRows>>

Tables == [users |-> users, emails |-> emails, name_pool |-> name_pool]
NoSnap == <<>>
NoOp == [kind |-> "none"]
NoLoc == <<>>
NoPre == <<>>

\* what a new connection (or any reader after the lock is released) would see
Committed == IF inTx THEN snap ELSE Tables

\* mutant: the handler leaves the transaction's writes in place
RolledBackKeeps == Tables

\* the tables after the handler's ROLLBACK: it undoes the open transaction,
\* and raises (swallowed by `except Exception: pass`) when none is open
RolledBack == IF inTx THEN snap ELSE Tables

\* the outcomes a statement of the claim transaction can have: TRUE = raises
FaultSet == IF storageFaults THEN BOOLEAN ELSE {FALSE}

\* mutant: the lock is never waited for
LockAlwaysFree == TRUE

\* `with _lock:` can be entered
LockFree == lock = 0

SetTables(d) ==
  /\ users' = d.users
  /\ emails' = d.emails
  /\ name_pool' = d.name_pool

\* conn.commit()
CommitTx ==
  /\ inTx' = FALSE
  /\ snap' = NoSnap

\* leaving `with _lock:` through a return statement
ReturnUnlock(t, v) ==
  /\ pc' = [pc EXCEPT ![t] = "idle"]
  /\ op' = [op EXCEPT ![t] = NoOp]
  /\ last' = [op |-> op[t], ret |-> v]
  /\ lock' = 0

\* a return before the lock is taken
ReturnEarly(t, o, v) ==
  /\ last' = [op |-> o, ret |-> v]
  /\ budget' = budget - 1
  /\ UNCHANGED <<pc, op>>

\* a call that goes on to wait for the lock
Enter(t, o) ==
  /\ pc' = [pc EXCEPT ![t] = "wait"]
  /\ op' = [op EXCEPT ![t] = o]
  /\ budget' = budget - 1
  /\ UNCHANGED last

CanCall(t) == pc[t] = "idle" /\ budget > 0

History == <<pre, allocLog, deactivated>>
Conn == <<users, emails, name_pool, inTx, snap, clock>>

\* ------------------------------------------------------------------ calls
CallInitDb(t) ==
  /\ CanCall(t)
  /\ Enter(t, [kind |-> "init_db"])
  /\ UNCHANGED <<Conn, lock, Static, loc, History>>

CallUpsertUser(t) ==
  /\ CanCall(t)
  /\ \E tid \in Owners, chat \in ChatIds :
       Enter(t, [kind |-> "upsert_user", telegram_id |-> tid, chat_id |-> chat])
  /\ UNCHANGED <<Conn, lock, Static, loc, History>>

\* seed_names_from_file up to the lock: a missing file and a file without
\* any name return 0 at once
CallSeed(t) ==
  /\ CanCall(t)
  /\ \E exists \in BOOLEAN, f \in Files :
       LET names == NamesOfFile(f)
           o == [kind |-> "seed", names |-> IF exists THEN names ELSE <<>>]
       IN IF ~exists \/ names = <<>>
          THEN ReturnEarly(t, o, 0)
          ELSE Enter(t, o)
  /\ UNCHANGED <<Conn, lock, Static, loc, History>>

CallCreateEmail(t) ==
  /\ CanCall(t)
  /\ \E tid \in Owners, d \in DomainInputs :
       Enter(t, [kind |-> "create_email", telegram_id |-> tid,
                 domain |-> NormalizeDomain(d)])
  /\ UNCHANGED <<Conn, lock, Static, loc, History>>

\* addresses a caller may pass: those issued so far, typed in upper case,
\* and one that was never issued
AddressInputs ==
  {Upper(r.address) : r \in Committed.emails} \cup {StrangerAddress}

CallDeactivate(t) ==
  /\ CanCall(t)
  /\ \E a \in AddressInputs, tid \in Owners :
       Enter(t, [kind |-> "deactivate", address |-> a, telegram_id |-> tid])
  /\ UNCHANGED <<Conn, lock, Static, loc, History>>

CallGetUserByAddress(t) ==
  /\ CanCall(t)
  /\ \E a \in AddressInputs :
       Enter(t, [kind |-> "get_user_by_address", address |-> a])
  /\ UNCHANGED <<Conn, lock, Static, loc, History>>

CallGetChatId(t) ==
  /\ CanCall(t)
  /\ \E tid \in Owners : Enter(t, [kind |-> "get_chat_id", telegram_id |-> tid])
  /\ UNCHANGED <<Conn, lock, Static, loc, History>>

ListLimits == {1, DefaultLimit}

CallListEmails(t) ==
  /\ CanCall(t)
  /\ \E tid \in Owners, limit \in ListLimits :
       Enter(t, [kind |-> "list_emails", telegram_id |-> tid, limit |-> limit])
  /\ UNCHANGED <<Conn, lock, Static, loc, History>>

\* ------------------------------------------------------------ `with _lock:`
Acquire(t) ==
  /\ pc[t] = "wait"
  /\ LockFree
  /\ lock' = t
  /\ pc' = [pc EXCEPT ![t] =
              IF op[t].kind = "create_email" THEN "select" ELSE "locked"]
  /\ pre' = [pre EXCEPT ![t] =
               IF op[t].kind = "create_email" THEN Committed ELSE NoPre]
  /\ UNCHANGED <<Conn, Static, op, loc, last, budget, allocLog,
                 deactivated>>

Holds(t, kind) == pc[t] = "locked" /\ op[t].kind = kind

\* CREATE TABLE IF NOT EXISTS x 3; commit
ExecInitDb(t) ==
  /\ Holds(t, "init_db")
  /\ CommitTx
  /\ ReturnUnlock(t, None)
  /\ UNCHANGED <<users, emails, name_pool, clock, Static, loc,
                 budget, History>>

ExecUpsertUser(t) ==
  /\ Holds(t, "upsert_user")
  /\ users' = UpsertUser(users, op[t].telegram_id, op[t].chat_id)
  /\ CommitTx
  /\ ReturnUnlock(t, None)
  /\ UNCHANGED <<emails, name_pool, clock, Static, loc, budget,
                 History>>

ExecSeed(t) ==
  /\ Holds(t, "seed")
  /\ name_pool' = SeedNames(name_pool, op[t].names)
  /\ CommitTx
  /\ ReturnUnlock(t, SeedReturn(op[t].names))
  /\ UNCHANGED <<users, emails, clock, Static, loc, budget,
                 History>>

\* cur.rowcount > 0
DeactivateReturn(mails, a, tid) == DeactivateMatches(mails, a, tid) # {}

ExecDeactivate(t) ==
  /\ Holds(t, "deactivate")
  /\ LET a == Lower(op[t].address)
         ok == DeactivateReturn(emails, a, op[t].telegram_id)
     IN /\ emails' = DeactivateRows(emails, a, op[t].telegram_id)
        /\ ReturnUnlock(t, ok)
        /\ deactivated' = IF ok THEN Append(deactivated, a) ELSE deactivated
  /\ CommitTx
  /\ UNCHANGED <<users, name_pool, clock, Static, loc, budget, pre,
                 allocLog>>

ExecGetUserByAddress(t) ==
  /\ Holds(t, "get_user_by_address")
  /\ ReturnUnlock(t, LookupOwner(emails, Lower(op[t].address)))
  /\ UNCHANGED <<Conn, Static, loc, budget, History>>

ExecGetChatId(t) ==
  /\ Holds(t, "get_chat_id")
  /\ ReturnUnlock(t, LookupChat(users, op[t].telegram_id))
  /\ UNCHANGED <<Conn, Static, loc, budget, History>>

ExecListEmails(t) ==
  /\ Holds(t, "list_emails")
  /\ \E rows \in ListResults(emails, op[t].telegram_id, op[t].limit) :
       ReturnUnlock(t, rows)
  /\ UNCHANGED <<Conn, Static, loc, budget, History>>

\* -------------------------------------------------- create_email_for_user
\* mutant: the handler goes on to the next attempt without a ROLLBACK
AttemptFailedNoRollback(t) ==
  /\ loc' = [loc EXCEPT ![t].attempt = @ + 1]
  /\ pc' = [pc EXCEPT ![t] = "begin"]
  /\ UNCHANGED <<users, emails, name_pool, inTx, snap, lock, clock, op, last,
                 allocLog>>

\* mutant: a failed attempt is not counted
AttemptFailedUncounted(t) ==
  /\ SetTables(RolledBack)
  /\ inTx' = FALSE
  /\ snap' = NoSnap
  /\ pc' = [pc EXCEPT ![t] = "begin"]
  /\ UNCHANGED <<lock, clock, op, loc, last, allocLog>>

\* one failed attempt: the handler's ROLLBACK, then `continue`
AttemptFailed(t) ==
  /\ SetTables(RolledBack)
  /\ inTx' = FALSE
  /\ snap' = NoSnap
  /\ loc' = [loc EXCEPT ![t].attempt = @ + 1]
  /\ pc' = [pc EXCEPT ![t] = "begin"]
  /\ UNCHANGED <<lock, clock, op, last, allocLog>>

\* what the history keeps of one create_email_for_user call
AllocEntry(t, address, base) ==
  [telegram_id |-> op[t].telegram_id, domain |-> op[t].domain,
   address |-> address, base |-> base]

\* `return None` inside the lock
ReturnNone(t, base) ==
  /\ ReturnUnlock(t, None)
  /\ allocLog' = Append(allocLog, AllocEntry(t, None, base))
  /\ loc' = [loc EXCEPT ![t] = NoLoc]
  /\ pre' = [pre EXCEPT ![t] = NoPre]
  /\ UNCHANGED Conn

\* SELECT name FROM name_pool WHERE used=0 ORDER BY RANDOM() LIMIT 1
AllocSelect(t) ==
  /\ pc[t] = "select"
  /\ IF SelectUnused(name_pool) = {}
     THEN ReturnNone(t, None)
     ELSE /\ \E base \in SelectUnused(name_pool) :
               loc' = [loc EXCEPT ![t] =
                         [base |-> base, address |-> None, attempt |-> 0]]
          /\ pc' = [pc EXCEPT ![t] = "begin"]
          /\ UNCHANGED <<Conn, lock, op, last, pre, allocLog>>
  /\ UNCHANGED <<Static, budget, deactivated>>

\* top of the loop: the range(30) test, the suffix, the address, BEGIN
\* (BEGIN raises when the connection already has a transaction open)
AllocBegin(t) ==
  /\ pc[t] = "begin"
  /\ IF loc[t].attempt >= MaxAttempts
     THEN ReturnNone(t, loc[t].base)
     ELSE \E suffix \in Suffixes, fault \in FaultSet :
            IF fault \/ inTx
            THEN /\ AttemptFailed(t)
                 /\ UNCHANGED pre
            ELSE /\ loc' = [loc EXCEPT ![t].address =
                              MakeAddress(loc[t].base, suffix, op[t].domain)]
                 /\ inTx' = TRUE
                 /\ snap' = Tables
                 /\ pc' = [pc EXCEPT ![t] = "insert"]
                 /\ UNCHANGED <<users, emails, name_pool, lock, clock, op,
                                last, pre, allocLog>>
  /\ UNCHANGED <<Static, budget, deactivated>>

\* INSERT INTO emails(address, telegram_id, base_name, is_active)
AllocInsert(t) ==
  /\ pc[t] = "insert"
  /\ \E fault \in FaultSet :
       IF fault \/ EmailExists(emails, loc[t].address)
       THEN AttemptFailed(t)
       ELSE /\ emails' = InsertEmail(emails, loc[t].address,
                                     op[t].telegram_id, loc[t].base, clock)
            /\ pc' = [pc EXCEPT ![t] = "update"]
            /\ UNCHANGED <<users, name_pool, inTx, snap, lock, clock, loc,
                           op, last, allocLog>>
  /\ UNCHANGED <<Static, budget, pre, deactivated>>

\* UPDATE name_pool ... WHERE name=? AND used=0, then the rowcount test
AllocUpdate(t) ==
  /\ pc[t] = "update"
  /\ \E fault \in FaultSet :
       IF fault
       THEN /\ AttemptFailed(t)
            /\ UNCHANGED zeroRows
       ELSE IF Cardinality(ClaimMatches(name_pool, loc[t].base)) # 1
       THEN /\ AttemptFailed(t)
            /\ zeroRows' = Append(zeroRows,
                                  AllocEntry(t, loc[t].address, loc[t].base))
       ELSE /\ name_pool' = ClaimName(name_pool, loc[t].base,
                                      op[t].telegram_id, loc[t].address, clock)
            /\ pc' = [pc EXCEPT ![t] = "commit"]
            /\ UNCHANGED <<users, emails, inTx, snap, lock, clock, loc, op,
                           last, allocLog, zeroRows>>
  /\ UNCHANGED <<storageFaults, Mail, budget, pre, deactivated>>

\* conn.commit(); return address
AllocCommit(t) ==
  /\ pc[t] = "commit"
  /\ \E fault \in FaultSet :
       IF fault
       THEN /\ AttemptFailed(t)
            /\ UNCHANGED pre
       ELSE /\ CommitTx
            /\ clock' = clock + 1
            /\ ReturnUnlock(t, loc[t].address)
            /\ allocLog' = Append(allocLog,
                                   AllocEntry(t, loc[t].address, loc[t].base))
            /\ loc' = [loc EXCEPT ![t] = NoLoc]
            /\ pre' = [pre EXCEPT ![t] = NoPre]
            /\ UNCHANGED <<users, emails, name_pool>>
  /\ UNCHANGED <<Static, budget, deactivated>>

\* ------------------------------------------- the handler and the transport
\* the locals of the coroutine before it is called
NoHandler ==
  [caller |-> "none", to |-> <<>>, raw |-> Blank, telegram_id |-> None,
   chat_id |-> None, arg_header |-> Blank, arg_body |-> Blank,
   header |-> Blank, body |-> Blank, max_len |-> 0,
   chunks |-> <<>>, i |-> 0, images |-> <<>>, status |-> "none",
   from_payload |-> Blank, subject_payload |-> Blank, late |-> FALSE]

\* a deactivation of address a has returned True
Disabled(a) == \E i \in 1..Len(deactivated) : deactivated[i] = a

\* what bot.send_message / bot.send_photo is handed; history only: `to`, the
\* alias the request was addressed to, and `disabled`, whether a deactivation
\* of it had returned True by then
Sent(kind, chat_id, text) ==
  [kind |-> kind, chat_id |-> chat_id, text |-> text, to |-> hloc.to,
   disabled |-> Disabled(hloc.to)]

\* await send_multipart_email(chat_id, header, body, max_len)
EnterSend(caller, to, chat_id, header, body, max_len) ==
  /\ hpc' = "plan"
  /\ hloc' = [hloc EXCEPT !.caller = caller, !.to = to, !.chat_id = chat_id,
                          !.arg_header = header, !.arg_body = body,
                          !.header = header, !.body = body,
                          !.max_len = max_len]

\* the coroutine returns to whoever awaited it
LeaveSend == IF hloc.caller = "inbound" THEN "photos" ELSE "done"

\* the strips, the empty-body message, else the sizes and the chunk list
SendPlan ==
  /\ hpc = "plan"
  /\ LET header == TStrip(hloc.header)
         body == TStrip(hloc.body)
     IN IF body = Blank
        THEN /\ outbox' = Append(outbox,
                    Sent("message", hloc.chat_id, Take(header, hloc.max_len)))
             /\ hloc' = [hloc EXCEPT !.header = header, !.body = body]
             /\ hpc' = LeaveSend
        ELSE /\ hloc' = [hloc EXCEPT
                           !.header = SentHeader(header, hloc.max_len),
                           !.body = body,
                           !.chunks = Chunks(header, body, hloc.max_len),
                           !.i = 1]
             /\ hpc' = "send"
             /\ UNCHANGED outbox
  /\ UNCHANGED <<DbVars, parsed>>

\* one turn of `for i, ch in enumerate(chunks, start=1)`: the message is
\* built and awaited; after the last turn the coroutine returns
SendChunk ==
  /\ hpc = "send"
  /\ outbox' = Append(outbox,
        Sent("message", hloc.chat_id, Message(hloc.header, hloc.chunks, hloc.i)))
  /\ hloc' = [hloc EXCEPT !.i = @ + 1]
  /\ hpc' = IF hloc.i = Len(hloc.chunks) THEN LeaveSend ELSE "send"
  /\ UNCHANGED <<DbVars, parsed>>

\* what the callers of the parser pass and what the library makes of it
RawOf(n) == <<Run("H", 20), Run("\n", 2), Run("x", n - 22)>>
Url(c) == <<"h", ":", c>>
FoundLists ==
  {<<>>,
   <<Url("1"), Url("1") \o <<" ">>, Url("2"), Url("1")>>,
   <<Url("1"), Url("2"), Url("3"), Url("4"), Url("5"), Url("6")>>}
Libs ==
  [raises : BOOLEAN,
   from_addr : {Blank, <<Run(" ", 1), Run("f", 3)>>},
   subject : {Blank, Letters("s", 4)},
   date_str : {Blank, Letters("d", 5)},
   plain_parts : {<<>>, <<Letters(" ", 2), Letters("p", 6)>>},
   html : {Blank, <<Run("t", 3), Run("\n", 5), Run("t", 1)>>},
   found : FoundLists]


\* ----------------------------------------------------------- inbound_email
WarningLen == 76
NoteLen == 52
PhotoLimit == 5

\* the emoji that open the header lines and the notes are one placeholder
\* character per code point
ToLabel == FromChars(<<"#", " ", "T", "o", ":", " ">>)
FromLabel == FromChars(<<"#", " ", "F", "r", "o", "m", ":", " ">>)
SubjectLabel ==
  FromChars(<<"#", " ", "S", "u", "b", "j", "e", "c", "t", ":", " ">>)
DateLabel == FromChars(<<"#", " ", "D", "a", "t", "e", ":", " ">>)
NewLine == FromChars(<<"\n">>)
Unknown == FromChars(<<"u", "n", "k", "n", "o", "w", "n">>)
NoSubject ==
  FromChars(<<"(", "n", "o", " ", "s", "u", "b", "j", "e", "c", "t", ")">>)
BodyWarning == Letters("W", WarningLen)
TrimNote == Cat(Separator, Letters("N", NoteLen))

\* a or b
Or(a, b) == IF a # Blank THEN a ELSE b

\* header
HeaderOf(to_addr, from_addr, subject, date_str) ==
  TStrip(Cat(Cat(Cat(Cat(ToLabel, FromChars(to_addr)), NewLine),
                 Cat(Cat(FromLabel, from_addr), NewLine)),
             Cat(Cat(Cat(SubjectLabel, subject), NewLine),
                 IF date_str # Blank
                   THEN Cat(Cat(DateLabel, date_str), NewLine)
                   ELSE Blank)))

\* body_text with the two notes
BodyOf(body_text, truncated) ==
  Cat(Or(body_text, BodyWarning), IF truncated THEN TrimNote ELSE Blank)

\* image_urls[:5]
FirstUrls(urls) ==
  SubSeq(urls, 1, IF Len(urls) < PhotoLimit THEN Len(urls) ELSE PhotoLimit)

\* the payloads posted: the `to` field in upper case with blanks around it
\* (or blank), raw texts of no, one and several parts
InboundTos ==
  {<<" ">>} \cup {<<" ">> \o a \o <<"\n">> : a \in AddressInputs}
InboundRaws == {Blank, RawOf(30), RawOf(2 * DefaultMaxLen)}
PayloadTexts == {Blank, <<Run("p", 3), Run(" ", 1)>>}
InboundLibs ==
  {l \in Libs : /\ l.from_addr = Blank
                /\ l.subject = Blank
                /\ l.date_str = Blank
                /\ l.plain_parts = <<>>
                /\ l.html = Blank
                /\ Len(l.found) < MaxImages}

\* the request ends: an HTTPException or a return
Respond(status) ==
  /\ hpc' = "done"
  /\ hloc' = [hloc EXCEPT !.status = status]

\* the secret check, the payload fields, the missing-'to' check
InboundArrive ==
  /\ hpc = "idle"
  /\ \E secret_ok \in BOOLEAN, to \in InboundTos, raw \in InboundRaws,
        from_payload \in PayloadTexts, subject_payload \in PayloadTexts :
       LET to_addr == Strip(Lower(to))
       IN IF ~secret_ok
          THEN Respond("401")
          ELSE IF to_addr = <<>>
          THEN Respond("400")
          ELSE /\ hpc' = "owner"
               /\ hloc' = [hloc EXCEPT !.caller = "inbound", !.to = to_addr,
                                       !.raw = raw,
                                       !.from_payload = TStrip(from_payload),
                                       !.subject_payload =
                                          TStrip(subject_payload)]
  /\ UNCHANGED <<DbVars, outbox, parsed>>

\* telegram_id = get_user_by_address(to_addr), inside its `with _lock:`
InboundOwner ==
  /\ hpc = "owner"
  /\ LockFree
  /\ LET telegram_id == LookupOwner(emails, hloc.to)
     IN IF telegram_id = None
        THEN /\ hpc' = "done"
             /\ hloc' = [hloc EXCEPT !.status = "ignored",
                                     !.late = Disabled(hloc.to)]
        ELSE /\ hpc' = "chat"
             /\ hloc' = [hloc EXCEPT !.telegram_id = telegram_id,
                                     !.late = Disabled(hloc.to)]
  /\ UNCHANGED <<DbVars, outbox, parsed>>

\* chat_id = get_chat_id(telegram_id), inside its `with _lock:`
InboundChat ==
  /\ hpc = "chat"
  /\ LockFree
  /\ LET chat_id == LookupChat(users, hloc.telegram_id[1])
     IN IF chat_id = None
        THEN Respond("ignored")
        ELSE /\ hpc' = "parse"
             /\ hloc' = [hloc EXCEPT !.chat_id = chat_id]
  /\ UNCHANGED <<DbVars, outbox, parsed>>

\* parse_raw_email, the header and the body, and the call of
\* send_multipart_email up to its first await
InboundParse ==
  /\ hpc = "parse"
  /\ \E lib \in InboundLibs :
       LET p == ParseRawEmail(hloc.raw, lib)
           from_addr == Or(Or(p.from_addr, hloc.from_payload), Unknown)
           subject == Or(Or(p.subject, hloc.subject_payload), NoSubject)
       IN /\ parsed' = p
          /\ hpc' = "plan"
          /\ hloc' = [hloc EXCEPT
                        !.arg_header =
                           HeaderOf(hloc.to, from_addr, subject, p.date_str),
                        !.arg_body = BodyOf(p.body_text, p.truncated),
                        !.header =
                           HeaderOf(hloc.to, from_addr, subject, p.date_str),
                        !.body = BodyOf(p.body_text, p.truncated),
                        !.max_len = DefaultMaxLen,
                        !.images = FirstUrls(p.image_urls)]
  /\ UNCHANGED <<DbVars, outbox>>

\* one turn of `for url in image_urls[:5]`: whether send_photo raises or
\* not, the loop goes on; after the last turn the handler returns
SendPhoto ==
  /\ hpc = "photos"
  /\ IF hloc.images = <<>>
     THEN /\ Respond("ok")
          /\ UNCHANGED outbox
     ELSE /\ outbox' = Append(outbox,
                 Sent("photo", hloc.chat_id, FromChars(Head(hloc.images))))
          /\ hloc' = [hloc EXCEPT !.images = Tail(@)]
          /\ UNCHANGED hpc
  /\ UNCHANGED <<DbVars, parsed>>

\* ------------------------------------------------------------ specification
\* the pool after start-up: init_db(), then seed_names_from_file("name.txt")
StartPools == {SeedNames({}, NamesOfFile(f)) : f \in Files}

InitThreads ==
  /\ pc = [t \in Threads |-> "idle"]
  /\ op = [t \in Threads |-> NoOp]
  /\ loc = [t \in Threads |-> NoLoc]
  /\ pre = [t \in Threads |-> NoPre]

\* nobody in the store, nothing sent, no request being handled
InitIdle ==
  /\ inTx = FALSE
  /\ snap = NoSnap
  /\ lock = 0
  /\ deactivated = <<>>
  /\ zeroRows = <<>>
  /\ last = [op |-> NoOp, ret |-> None]
  /\ hpc = "idle"
  /\ hloc = NoHandler
  /\ outbox = <<>>
  /\ parsed = NoParse

InitConn ==
  /\ InitIdle
  /\ users = {}
  /\ emails = {}
  /\ clock = 0
  /\ allocLog = <<>>

InitStore ==
  /\ InitConn
  /\ InitThreads
  /\ name_pool \in StartPools
  /\ budget = MaxCalls

\* the storage executes every statement
Init == InitStore /\ storageFaults = FALSE

\* any statement of the claim transaction may raise
InitFaulty == InitStore /\ storageFaults = TRUE

AllocSteps(t) ==
  \/ AllocSelect(t)
  \/ AllocBegin(t)
  \/ AllocInsert(t)
  \/ AllocUpdate(t)
  \/ AllocCommit(t)

\* seed, allocate, deactivate and lookup, from concurrent threads
Next ==
  \E t \in Threads :
    \/ CallSeed(t)
    \/ CallCreateEmail(t)
    \/ CallDeactivate(t)
    \/ CallGetUserByAddress(t)
    \/ Acquire(t)
    \/ ExecSeed(t)
    \/ ExecDeactivate(t)
    \/ ExecGetUserByAddress(t)
    \/ AllocSteps(t)

Spec == Init /\ [][Next]_vars

SpecFaulty == InitFaulty /\ [][Next]_vars

\* allocation requests only, against a pool of unused names, on a storage
\* whose statements may raise
NextAlloc ==
  \E t \in Threads :
    \/ CallCreateEmail(t)
    \/ Acquire(t)
    \/ AllocSteps(t)

SpecAlloc == InitFaulty /\ [][NextAlloc]_vars

\* the same, each thread being scheduled again and again: a thread waiting
\* for a lock that stays free gets it, a thread inside the call goes on
FairAlloc ==
  \A t \in Threads : WF_vars(Acquire(t)) /\ WF_vars(AllocSteps(t))

SpecAllocFair == InitFaulty /\ [][NextAlloc]_vars /\ FairAlloc

\* allocation requests only, on a storage that executes every statement
SpecSound == Init /\ [][NextAlloc]_vars

\* Scenario A: the pool holds the single unused entry "fox", one allocation
\* request per thread, no storage fault
Fox == <<"f", "o", "x">>

InitFox ==
  /\ InitConn
  /\ InitThreads
  /\ name_pool = SeedNames({}, NamesOfFile(FileFox))
  /\ storageFaults = FALSE
  /\ budget = NThreads

SpecFox == InitFox /\ [][NextAlloc]_vars

\* send_multipart_email called on its own, with headers on both sides of the
\* 1200-character cut and bodies of no, one, two and more than nine parts
HeaderCut == DefaultMaxLen - TLen(LabelTemplate) - TLen(Separator) - MinFirstSize
ChunkHeaders ==
  {Blank,
   <<Run(" ", 2), Run("T", 20), Run("\n", 1), Run("S", 20), Run("\n", 1)>>,
   Letters("T", HeaderCut), Letters("T", HeaderCut + 1),
   Letters("T", DefaultMaxLen + HeaderCap)}
ChunkBodies ==
  {Blank, Letters(" ", 3), <<Run("\n", 1), Run("a", 1), Run(" ", 2)>>,
   <<Run("a", MinFirstSize), Run("b", OtherFloor)>>,
   <<Run("a", DefaultMaxLen), Run(" ", 1), Run("b", DefaultMaxLen)>>,
   <<Run("a", (MaxParts * DefaultMaxLen) \div 2),
     Run("b", (MaxParts * DefaultMaxLen) \div 2)>>}
ChunkMaxLens == {DefaultMaxLen, OtherFloor, MinFirstSize}

CallSend ==
  /\ hpc = "idle"
  /\ \E header \in ChunkHeaders, body \in ChunkBodies, max_len \in ChunkMaxLens,
        chat \in ChatIds :
       EnterSend("direct", <<>>, Some(chat), header, body, max_len)
  /\ UNCHANGED <<DbVars, outbox, parsed>>

InitChunk ==
  /\ InitConn
  /\ InitThreads
  /\ name_pool = {}
  /\ storageFaults = FALSE
  /\ budget = 0

NextChunk == CallSend \/ SendPlan \/ SendChunk

SpecChunk == InitChunk /\ [][NextChunk]_vars

\* parse_raw_email called on its own: raw texts around the 3400-character
\* mark, with and without a blank line, and every answer of the library
ParseRaws ==
  {Blank, RawOf(30), Letters("H", 30), RawOf(TruncatedAt - 1),
   RawOf(TruncatedAt), RawOf(TruncatedAt + 1)}
CallParse ==
  /\ hpc = "idle"
  /\ \E raw \in ParseRaws, lib \in Libs :
       /\ parsed' = ParseRawEmail(raw, lib)
       /\ hloc' = [hloc EXCEPT !.caller = "parse", !.raw = raw]
  /\ hpc' = "done"
  /\ UNCHANGED <<DbVars, outbox>>

\* a finished call may be followed by the next
NextCall ==
  /\ hpc = "done"
  /\ hpc' = "idle"
  /\ hloc' = NoHandler
  /\ parsed' = NoParse
  /\ outbox' = <<>>
  /\ UNCHANGED DbVars

NextParse == CallParse \/ NextCall

SpecParse == InitChunk /\ [][NextParse]_vars

\* every operation of the store, from concurrent threads
NextAll ==
  \E t \in Threads :
    \/ CallInitDb(t)
    \/ CallUpsertUser(t)
    \/ CallSeed(t)
    \/ CallCreateEmail(t)
    \/ CallDeactivate(t)
    \/ CallGetUserByAddress(t)
    \/ CallGetChatId(t)
    \/ CallListEmails(t)
    \/ Acquire(t)
    \/ ExecInitDb(t)
    \/ ExecUpsertUser(t)
    \/ ExecSeed(t)
    \/ ExecDeactivate(t)
    \/ ExecGetUserByAddress(t)
    \/ ExecGetChatId(t)
    \/ ExecListEmails(t)
    \/ AllocSteps(t)

SpecAll == Init /\ [][NextAll]_vars

\* inbound mail while the alias is being deactivated: the store after
\* start-up with "fox" in the pool, upsert_user(1, 7) (or no user row) and
\* one allocation by owner 1; one deactivate call per thread
FoxDomain == NormalizeDomain(<<"d">>)
FoxAlias == MakeAddress(Fox, SuffixMin, FoxDomain)

InitInbound ==
  /\ InitIdle
  /\ InitThreads
  /\ users \in {{}, UpsertUser({}, 1, 7)}
  /\ emails = InsertEmail({}, FoxAlias, 1, Fox, 0)
  /\ name_pool =
       ClaimName(SeedNames({}, NamesOfFile(FileFox)), Fox, 1, FoxAlias, 0)
  /\ clock = 1
  /\ allocLog = <<[telegram_id |-> 1, domain |-> FoxDomain,
                   address |-> FoxAlias, base |-> Fox]>>
  /\ storageFaults = FALSE
  /\ budget = NThreads

InboundSteps ==
  \/ InboundArrive
  \/ InboundOwner
  \/ InboundChat
  \/ InboundParse
  \/ SendPlan
  \/ SendChunk
  \/ SendPhoto

NextInbound ==
  \/ \E t \in Threads :
       \/ CallDeactivate(t)
       \/ Acquire(t)
       \/ ExecDeactivate(t)
  \/ InboundSteps

SpecInbound == InitInbound /\ [][NextInbound]_vars

\* ------------------------------------------------------------- properties
AllocPcs == {"select", "begin", "insert", "update", "commit"}

\* thread t returns from create_email_for_user in this step
AllocReturns(t) == pc[t] \in AllocPcs /\ pc'[t] = "idle"

\* thread t executes the body of the given operation in this step
Executes(t, kind) == Holds(t, kind) /\ pc'[t] = "idle"

AllDone == budget = 0 /\ \A t \in Threads : pc[t] = "idle"

\* the allocations that returned an address
Successes == SelectSeq(allocLog, LAMBDA e : e.address # None)

UsedRows(pool) == {r \in pool : r.used = 1}

\* C1: against a pool of N unused names at most N allocation calls return an
\* address, the returned addresses are pairwise distinct, and every successful
\* call marked one pool entry used that no other successful call marked.
C1_NoDoubleClaim ==
  /\ Len(Successes) <= Cardinality(name_pool)
  /\ \A i, j \in 1..Len(Successes) :
       i # j => /\ Successes[i].address # Successes[j].address
                /\ Successes[i].base # Successes[j].base
  /\ \A i \in 1..Len(Successes) :
       \E r \in UsedRows(Committed.name_pool) :
         /\ r.name = Successes[i].base
         /\ r.used_email = Successes[i].address
  /\ Cardinality(UsedRows(Committed.name_pool)) = Len(Successes)

\* two names, three calls: two addresses handed out, the third call told
\* that the pool is exhausted
C1_Witness ==
  /\ Cardinality(name_pool) = 2
  /\ Len(Successes) = 2
  /\ Len(allocLog) = 3
  /\ allocLog[3].address = None
  /\ UsedRows(name_pool) = name_pool

\* text of the form fox<4 digits>@domain
IsFoxAddress(a, domain) ==
  /\ Len(a) = Len(Fox) + 4 + 1 + Len(domain)
  /\ SubSeq(a, 1, Len(Fox)) = Fox
  /\ \A i \in (Len(Fox) + 1)..(Len(Fox) + 4) : a[i] \in Digit
  /\ a[Len(Fox) + 5] = "@"
  /\ SubSeq(a, Len(Fox) + 6, Len(a)) = domain

SameCaller ==
  \A i, j \in 1..Len(allocLog) :
    /\ allocLog[i].telegram_id = allocLog[j].telegram_id
    /\ allocLog[i].domain = allocLog[j].domain

\* C2: Scenario A. With "fox" the only unused entry and the concurrent
\* allocation calls of one owner and domain all returned, exactly one call
\* got an address fox<4 digits>@domain, the others got None, there is one
\* alias row and "fox" is used.
C2_ScenarioA ==
  (AllDone /\ SameCaller) =>
    /\ Len(Successes) = 1
    /\ IsFoxAddress(Successes[1].address, Successes[1].domain)
    /\ Len(allocLog) = NThreads
    /\ Cardinality(emails) = 1
    /\ \A e \in emails : e.address = Successes[1].address
    /\ \A r \in name_pool : r.name = Fox /\ r.used = 1

C2_Witness ==
  /\ AllDone
  /\ SameCaller
  /\ Len(allocLog) >= 2
  /\ allocLog[1].address # None
  /\ allocLog[2].address = None

\* C3: an allocation call that returns an address has turned exactly one
\* name_pool entry from unused to used and added exactly one emails row (the
\* returned address, the caller as owner, active) and changed nothing else;
\* one that returns None leaves the tables as they were when it took the lock.
C3_AllocEffect ==
  [][\A t \in Threads :
       AllocReturns(t) =>
         LET before == pre[t]
             after == Committed'
             r == last'.ret
         IN IF r # None
            THEN /\ after.users = before.users
                 /\ \E row \in before.name_pool :
                      /\ row.used = 0
                      /\ \E row2 \in after.name_pool :
                           /\ row2.name = row.name
                           /\ row2.used = 1
                           /\ after.name_pool =
                                (before.name_pool \ {row}) \cup {row2}
                 /\ \E e \in after.emails :
                      /\ e \notin before.emails
                      /\ e.address = r
                      /\ e.telegram_id = op[t].telegram_id
                      /\ e.is_active = 1
                      /\ after.emails = before.emails \cup {e}
                      /\ Cardinality(after.emails) =
                           Cardinality(before.emails) + 1
            ELSE after = before]_vars

\* an allocation gave up after its attempts although a name was unused
C3_Witness ==
  /\ last.op.kind = "create_email"
  /\ last.ret = None
  /\ SelectUnused(name_pool) # {}
  /\ emails # {}

\* C4: a used name_pool entry stays used with the same used_by, used_email
\* and used_at in every later state, re-seeding included, and an allocation
\* that returns an address returns one built on a name that was unused.
C4_UsedIsFinal ==
  [][/\ \A r \in UsedRows(Committed.name_pool) : r \in Committed'.name_pool
     /\ \A t \in Threads :
          (AllocReturns(t) /\ last'.ret # None) =>
             loc[t].base \in SelectUnused(Committed.name_pool)]_vars

\* a list containing a used name was seeded again and the name is still used
C4_Witness ==
  /\ last.op.kind = "seed"
  /\ \E r \in UsedRows(name_pool) :
       \E i \in 1..Len(last.op.names) : last.op.names[i] = r.name

\* C5: in the committed state every emails row has a used name_pool entry
\* naming it (used_email) and its owner (used_by), no two emails rows share
\* a base_name or an address, and every used entry has exactly one such row.
C5_OneToOne ==
  LET mails == Committed.emails
      pool == Committed.name_pool
  IN /\ \A e \in mails :
          \E r \in pool : /\ r.name = e.base_name
                          /\ r.used = 1
                          /\ r.used_email = e.address
                          /\ r.used_by = Some(e.telegram_id)
     /\ \A e1, e2 \in mails :
          e1 # e2 => /\ e1.base_name # e2.base_name
                     /\ e1.address # e2.address
     /\ \A r \in UsedRows(pool) :
          Cardinality({e \in mails : e.base_name = r.name}) = 1

\* two aliases are committed and one allocation gave up after its attempts
\* were rolled back
C5_Witness ==
  /\ ~inTx
  /\ Cardinality(emails) = 2
  /\ \E i \in 1..Len(allocLog) :
       allocLog[i].address = None /\ allocLog[i].base # None

\* C6: seeding is idempotent: right after a seed of the list L, seeding L
\* again would leave name_pool as it is, and the seed itself left every entry
\* that was already present untouched.
C6_SeedIdempotent ==
  [][\A t \in Threads :
       Executes(t, "seed") =>
         /\ SeedNames(name_pool', op[t].names) = name_pool'
         /\ name_pool \subseteq name_pool'
         /\ Cardinality(SelectUnused(SeedNames(name_pool', op[t].names))) =
              Cardinality(SelectUnused(name_pool'))]_vars

\* a list with a used name, an unused name and a repeated name was seeded
C6_Witness ==
  /\ last.op.kind = "seed"
  /\ Len(last.op.names) > Cardinality(name_pool)
  /\ UsedRows(name_pool) # {}
  /\ SelectUnused(name_pool) # {}

\* C7: the value a seed call returns is the number of name_pool entries the
\* call added.
C7_SeedReturnsInserted ==
  [][\A t \in Threads :
       Executes(t, "seed") =>
         last'.ret = Cardinality(name_pool' \ name_pool)]_vars

\* C8: deactivate returns True exactly when an emails row has the lowercased
\* address and the given owner, whether or not the row was already inactive,
\* and a call that returns False changes no emails row.
C8_DeactivateResult ==
  [][\A t \in Threads :
       Executes(t, "deactivate") =>
         /\ last'.ret =
              (\E e \in emails : /\ e.address = Lower(op[t].address)
                                 /\ e.telegram_id = op[t].telegram_id)
         /\ (last'.ret = FALSE) => (emails' = emails)]_vars

\* the owner deactivated the same alias twice, the second time in upper case
C8_Witness ==
  /\ last.op.kind = "deactivate"
  /\ last.ret = TRUE
  /\ last.op.address # Lower(last.op.address)
  /\ Len(deactivated) = 2
  /\ deactivated[1] = deactivated[2]

Range(q) == {q[i] : i \in 1..Len(q)}

C10_AliasesAreKept ==
  [][/\ \A e \in Committed.emails :
          /\ \E e2 \in Committed'.emails :
               /\ e2.address = e.address
               /\ e2.telegram_id = e.telegram_id
               /\ e2.base_name = e.base_name
               /\ e.is_active = 0 => e2.is_active = 0
          /\ Cardinality({e2 \in Committed'.emails :
                            e2.address = e.address}) = 1
     /\ \A t \in Threads :
          (AllocReturns(t) /\ last'.ret # None) =>
             ~EmailExists(Committed.emails, last'.ret)]_vars

\* an allocation succeeded after an alias had been deactivated
C10_Witness ==
  /\ last.op.kind = "create_email"
  /\ last.ret # None
  /\ \E e \in emails : e.is_active = 0 /\ e.address # last.ret


\* --------------------------------------------------------------- C11 - C13
\* the arguments of the send_multipart_email call under way, as the function
\* first rebinds them
TheHeader == TStrip(hloc.arg_header)
TheBody == TStrip(hloc.arg_body)
Sending == hloc.caller = "direct" /\ hpc \in {"send", "done"}
Min(a, b) == IF a <= b THEN a ELSE b

\* C11: every message send_multipart_email hands to the transport is at most
\* max_len characters long, whatever the header, the body and max_len are
C11_MessageFits ==
  hloc.caller = "direct" =>
    \A k \in 1..Len(outbox) : TLen(outbox[k].text) <= hloc.max_len

\* the characters of the k-th message that come before its part of the body
PrefixLen(k) ==
  TLen(Label(k, Len(hloc.chunks)))
    + (IF k = 1 THEN TLen(hloc.header) + TLen(Separator) ELSE 0)
Span(k) == Drop(outbox[k].text, PrefixLen(k))

RECURSIVE SpansUpTo(_)
SpansUpTo(k) == IF k = 0 THEN Blank ELSE Cat(SpansUpTo(k - 1), Span(k))

\* C12: for a body that is not empty once stripped, the parts of the body in
\* the messages sent so far, put end to end in the order sent, are the body
\* up to that point, and all of it once the call is over; no part is empty;
\* the first part is first_size characters long, or the whole body when the
\* body is shorter
C12_SpansAreTheBody ==
  (Sending /\ TheBody # Blank) =>
     /\ SpansUpTo(Len(outbox)) = Take(TheBody, TLen(SpansUpTo(Len(outbox))))
     /\ \A k \in 1..Len(outbox) : Span(k) # Blank
     /\ Len(outbox) >= 1 =>
           TLen(Span(1)) =
             Min(FirstSize(TheHeader, hloc.max_len), TLen(TheBody))
     /\ hpc = "done" => SpansUpTo(Len(outbox)) = TheBody

C12_Witness ==
  /\ Sending /\ hpc = "done"
  /\ Len(outbox) > 9
  /\ \E k \in 1..Len(outbox) : Len(Span(k)) = 2

\* the number of parts a body of b characters takes
NParts(b, first, other) ==
  IF b <= first THEN 1 ELSE 1 + ((b - first + other - 1) \div other)

TheTotal ==
  NParts(TLen(TheBody), FirstSize(TheHeader, hloc.max_len),
         OtherSize(hloc.max_len))

\* the k-th message as the claim describes it: label (k/total), then the
\* header (cut to 1200 when it is too long) in the first message only, then
\* the k-th slice of the body
TheMessage(k) ==
  LET first == FirstSize(TheHeader, hloc.max_len)
      other == OtherSize(hloc.max_len)
  IN IF k = 1
     THEN Cat(Cat(Cat(Label(1, TheTotal),
                      SentHeader(TheHeader, hloc.max_len)), Separator),
              Take(TheBody, first))
     ELSE Cat(Label(k, TheTotal),
              Take(Drop(TheBody, first + (k - 2) * other), other))

\* C13: the messages are sent in the order 1..total, the k-th labelled
\* (k/total) with total the number of messages of the call, the header in the
\* first only; a body that is empty once stripped gives one message, the
\* header cut to max_len
C13_LabelsAndOrder ==
  Sending =>
    IF TheBody = Blank
    THEN /\ hpc = "done"
         /\ Len(outbox) = 1
         /\ outbox[1].text = Take(TheHeader, hloc.max_len)
    ELSE /\ \A k \in 1..Len(outbox) : outbox[k].text = TheMessage(k)
         /\ hpc = "send" => Len(outbox) = hloc.i - 1 /\ Len(outbox) < TheTotal
         /\ hpc = "done" => Len(outbox) = TheTotal

C13_Witness ==
  /\ Sending /\ hpc = "done"
  /\ Len(outbox) > 9
  /\ hloc.header # TheHeader


\* --------------------------------------------------------------------- C14
\* C14: parse_raw_email reports `truncated` exactly when the raw text is
\* empty, or 3400 characters or more, or the structured parse raised and the
\* fallback path answered; the fallback path returns no image and returns
C14_TruncatedFlag ==
  parsed.path # "none" =>
    /\ parsed.path \in {"empty", "structured", "fallback"}
    /\ parsed.truncated <=>
          \/ hloc.raw = Blank
          \/ TLen(hloc.raw) >= TruncatedAt
          \/ parsed.path = "fallback"
    /\ parsed.path = "fallback" => parsed.image_urls = <<>>
    /\ (parsed.path = "structured" /\ TLen(hloc.raw) = TruncatedAt - 1)
          => ~parsed.truncated

C14_Witness ==
  /\ parsed.path = "structured"
  /\ TLen(hloc.raw) = TruncatedAt
  /\ parsed.truncated
  /\ Len(parsed.image_urls) = MaxImages


\* --------------------------------------------------------------------- C15
\* the attempts (BEGINs) thread t has made so far in its allocation
Attempts(t) ==
  IF pc[t] = "select" THEN 0
  ELSE IF pc[t] = "begin" THEN loc[t].attempt
  ELSE loc[t].attempt + 1

\* C15: an allocation makes no attempt when it finds no unused name and at
\* most 30 attempts otherwise, and then returns an address or None; with the
\* lock granted to those who wait, every call that was issued returns
C15_AllocTerminates ==
  /\ [][\A t \in Threads : AllocReturns(t) =>
           /\ Attempts(t) <= MaxAttempts
           /\ SelectUnused(pre[t].name_pool) = {} => Attempts(t) = 0
           /\ last'.op.kind = "create_email"
           /\ last'.ret = None \/ last'.ret = loc[t].address]_vars
  /\ [](\A t \in Threads : pc[t] \in AllocPcs => Attempts(t) <= MaxAttempts)
  /\ \A t \in Threads : (pc[t] = "wait") ~> (pc[t] = "idle")

C15_Witness ==
  /\ \E t \in Threads : pc[t] = "wait"
  /\ \E t \in Threads : pc[t] = "begin" /\ loc[t].attempt = MaxAttempts


\* --------------------------------------------------------------------- C16
Losers == SelectSeq(allocLog, LAMBDA e : e.address = None)

\* C16 as stated: when the allocation calls race for the one unused name,
\* exactly one succeeds and every other call has seen its conditional UPDATE
\* match no row (and rolled back and tried again) by the time it returns
C16_LoserSeesZeroRows ==
  (AllDone /\ Len(allocLog) >= 2) =>
    /\ Len(Successes) = 1
    /\ Len(zeroRows) >= Len(Losers)
    /\ \A i \in 1..Len(zeroRows) : zeroRows[i].base = Fox

\* C16, amended: when the allocation calls race for the one unused name,
\* exactly one succeeds; no call ever sees its conditional UPDATE match no
\* row, because the name a call selected under the lock stays unused until
\* that call's own UPDATE; every other call finds no unused row at its
\* SELECT, made under the same lock after the winner's commit, and returns
\* None without an attempt
C16_LoserFindsNoRow ==
  /\ zeroRows = <<>>
  /\ \A t \in Threads :
       pc[t] \in {"begin", "insert", "update"} =>
         Cardinality(ClaimMatches(name_pool, loc[t].base)) = 1
  /\ Len(Successes) <= 1
  /\ \A i \in 1..Len(Losers) : Losers[i].base = None /\ Len(Successes) = 1
  /\ AllDone => Len(Successes) = 1 /\ Len(Losers) = NThreads - 1

C16_Witness ==
  /\ AllDone
  /\ Len(Losers) >= 1
  /\ Len(Successes) = 1
  /\ zeroRows = <<>>
  /\ \E r \in name_pool : r.name = Fox /\ r.used = 1


\* --------------------------------------------------------------------- C17
Inbound == hloc.caller = "inbound"

\* C17 as stated: nothing is handed to the bot for a request whose address is
\* unknown or inactive, and nothing is handed to the bot for an address once
\* a deactivation of it has returned True, requests under way included
C17_NothingAfterDeactivate ==
  Inbound =>
    /\ (hloc.status = "ignored" => outbox = <<>>)
    /\ \A k \in 1..Len(outbox) : ~outbox[k].disabled

\* C17, amended: a request is dropped, nothing at all being handed to the
\* bot, when its address is unknown or inactive at the time the handler
\* looks the owner up (so for every lookup made after a deactivation of the
\* address returned True) or when the owner has no chat; a request whose
\* lookup found the alias active is delivered whole, to the owner's chat
C17_DroppedAtLookup ==
  Inbound =>
    /\ (hloc.status = "ignored" => outbox = <<>>)
    /\ (hloc.late /\ hpc # "owner") =>
          hloc.status = "ignored" /\ hloc.telegram_id = None
    /\ (hloc.telegram_id = None \/ hloc.chat_id = None) => outbox = <<>>
    /\ \A k \in 1..Len(outbox) :
         /\ outbox[k].to = hloc.to
         /\ outbox[k].chat_id = LookupChat(users, hloc.telegram_id[1])
    /\ hloc.status = "ok" =>
         /\ ~hloc.late
         /\ Len(outbox) =
              (IF hloc.body = Blank THEN 1 ELSE Len(hloc.chunks))
                + Len(FirstUrls(parsed.image_urls))

C17_Witness ==
  /\ Inbound
  /\ hloc.late
  /\ hloc.status = "ignored"
  /\ hloc.to = FoxAlias
  /\ outbox = <<>>


\* --------------------------------------------------------------------- C18
\* thread t goes from a statement of its attempt back to the top of the loop
AttemptFails(t) ==
  /\ pc[t] \in {"begin", "insert", "update", "commit"}
  /\ pc'[t] = "begin"
  /\ loc'[t].attempt = loc[t].attempt + 1

\* C18: when BEGIN, the alias insert, the conditional pool update or the
\* commit of an attempt raises, the attempt is rolled back: the tables, as the
\* connection and as everybody else sees them, are what they were before the
\* attempt (no alias row without its claimed name, no claimed name without
\* its alias row), no transaction is left open, and the call goes on with the
\* next attempt, still holding the lock and returning nothing yet; what the
\* call returns in the end is an address or None
C18_FailedAttemptLeavesNothing ==
  [][\A t \in Threads :
       /\ AttemptFails(t) =>
            /\ Tables' = pre[t]
            /\ Committed' = pre[t]
            /\ ~inTx'
            /\ lock' = t /\ pre'[t] = pre[t]
            /\ last' = last /\ allocLog' = allocLog
            /\ loc'[t].base = loc[t].base
       /\ AllocReturns(t) =>
            /\ last'.ret = None \/ last'.ret = loc[t].address
            /\ last'.ret = None => Committed' = pre[t] /\ ~inTx']_vars

C18_Witness ==
  \E t \in Threads :
    /\ pc[t] = "begin"
    /\ loc[t].attempt = 4
    /\ Tables = pre[t]
    /\ ~inTx
    /\ pre[t].emails # {}


\* --------------------------------------------------------------------- C19
\* thread t is inside a `with _lock:` block
InRegion(t) == pc[t] = "locked" \/ pc[t] \in AllocPcs

\* C19: at most one thread is inside a `with _lock:` block of init_db,
\* upsert_user, seed_names_from_file, create_email_for_user,
\* deactivate_email, get_user_by_address, get_chat_id and list_emails, and it
\* holds the lock; every statement is executed by the thread inside; from the
\* SELECT of an allocation to its return no other thread enters a block and
\* the tables change by the allocation's own statements only
C19_OneInTheRegion ==
  /\ [](\A t, u \in Threads :
          /\ InRegion(t) => lock = t
          /\ (InRegion(t) /\ InRegion(u)) => t = u)
  /\ [][\A t \in Threads :
          /\ Conn' # Conn =>
                \E u \in Threads : InRegion(u) /\ lock = u /\ pc'[u] # pc[u]
          /\ (pc[t] \in AllocPcs /\ pc'[t] = pc[t] /\ loc'[t] = loc[t]) =>
                /\ UNCHANGED <<Conn, lock>>
                /\ \A u \in Threads : InRegion(u)' => u = t]_vars

C19_Witness ==
  \E t, u \in Threads :
    /\ pc[t] = "update"
    /\ pc[u] = "wait"
    /\ op[u].kind = "list_emails"
    /\ users # {}


\* --------------------------------------------------------------------- C20
\* thread t takes a step of a deactivate_email call
DeactivateStep(t) ==
  /\ pc'[t] # pc[t]
  /\ op[t].kind = "deactivate" \/ op'[t].kind = "deactivate"

\* C20: a deactivate_email call leaves name_pool and users as they are and
\* leaves every emails row as it is but for is_active of the row whose
\* address and owner it was given, which becomes 0; so the unused names, which
\* is what later allocations can still get, are the same after it as before
C20_DeactivateFrame ==
  [][\A t \in Threads :
       DeactivateStep(t) =>
         /\ name_pool' = name_pool
         /\ users' = users
         /\ SelectUnused(name_pool') = SelectUnused(name_pool)
         /\ Cardinality(emails') = Cardinality(emails)
         /\ \A r \in emails :
              IF /\ Executes(t, "deactivate")
                 /\ r.address = Lower(op[t].address)
                 /\ r.telegram_id = op[t].telegram_id
              THEN [r EXCEPT !.is_active = 0] \in emails'
              ELSE r \in emails']_vars

C20_Witness ==
  /\ last.op.kind = "deactivate"
  /\ last.ret = TRUE
  /\ \E r, q \in emails :
       /\ r.is_active = 0 /\ q.is_active = 1
       /\ r.telegram_id = q.telegram_id
  /\ \E r \in name_pool : r.used = 0


\* --------------------------------------------------------------------- C21
\* the calls of the history that returned an address
Winners == SelectSeq(allocLog, LAMBDA e : e.address # None)

\* the rows a call found unused when it took the lock
UnusedAtLock(t) == {r \in pre[t].name_pool : r.used = 0}

\* C21: on a storage that executes every statement, an allocation call that
\* finds a name unused when it takes the lock returns an address, and on its
\* first attempt (no attempt of any call fails: the insert meets no existing
\* address and the claim UPDATE matches its row); a call returns None only
\* when no name was unused; so of M calls against a pool of N unused names
\* exactly min(N, M) have returned an address
C21_ExhaustedOnlyWhenEmpty ==
  /\ [][\A t \in Threads : AllocReturns(t) =>
           IF UnusedAtLock(t) # {}
           THEN /\ last'.ret # None
                /\ Attempts(t) = 1
           ELSE /\ last'.ret = None
                /\ Attempts(t) = 0]_vars
  /\ [](\A t \in Threads : pc[t] \in AllocPcs => Attempts(t) <= 1)
  /\ [](Len(Winners) = Min(Cardinality(name_pool), Len(allocLog)))

\* three calls against the pool {fox, fox1}: two got an address, one did not
C21_Witness ==
  /\ Cardinality(name_pool) = 2
  /\ Len(allocLog) = MaxCalls
  /\ Len(Winners) = 2
  /\ \E i, j \in 1..Len(allocLog) :
       /\ allocLog[i].address # None
       /\ allocLog[j].address = None
       /\ i < j

====
